---------------------------- MODULE Spec2Model ----------------------------
(***************************************************************************)
(* A model of three parts of the blaze native engine (datafusion-ext):     *)
(*                                                                         *)
(*   limit_exec.rs        LimitExec / LimitStream                          *)
(*   ipc_reader_exec.rs   IpcReaderExec / IpcReaderStream and its readers  *)
(*   expr/cast.rs         TryCastExpr, to_integer, to_decimal              *)
(*                                                                         *)
(* Each part has its own specifications (SpecLimit; SpecIpc, SpecIpcPair;  *)
(* SpecInt, SpecDecimal, SpecCast); the variables of the other parts are   *)
(* held at an idle value.                                                  *)
(***************************************************************************)
EXTENDS Integers, Sequences, FiniteSets, TLC

VARIABLES
    \* LimitStream (limit_exec.rs)
    limit,          \* LimitStream.limit
    cur,            \* LimitStream.cur
    input_stream,   \* LimitStream.input_stream: the child stream
    output_rows,    \* baseline_metrics: rows recorded by record_poll
    emitted,        \* observer: the rows the limit stream has returned, in order
    lastPoll,       \* observer: what the last poll of the limit stream returned
    \* IpcReaderStream (ipc_reader_exec.rs)
    mode,           \* IpcReaderStream.mode
    segments,       \* the provider's segments, in the order its iterator yields them
    seg_next,       \* IpcReaderStream.segments: how many segments the iterator has yielded
    reader,         \* IpcReaderStream.reader
    built,          \* observer: the reader constructor called for each segment
    results,        \* observer: what each poll of the stream returned, in order
    aborted,        \* observer: a poll has panicked
    events,         \* observer: the steps of the stream's invocations, in order
    dropped,        \* the consumer has dropped the stream
    other,          \* the stream that execute returned for another partition
    shared,         \* the provider's apply() gave both streams one iterator
    \* TryCastExpr (expr/cast.rs)
    cast_type,      \* TryCastExpr.cast_type
    cast_input,     \* the string array that self.expr evaluates to
    overflow_checks,\* the build: are integer overflows checked (panic) or wrapped
    cast_output,    \* observer: what evaluate returned
    value_type,     \* the data type of the value that self.expr evaluates to
    cast_call       \* observer: the function called, and the cast function it ran

limitVars == <<limit, cur, input_stream, output_rows, emitted, lastPoll>>
ipcVars == <<mode, segments, seg_next, reader, built, results, aborted, events, dropped,
            other, shared>>

castVars == <<cast_type, cast_input, overflow_checks, cast_output, value_type, cast_call>>

vars == <<limitVars, ipcVars, castVars>>

-----------------------------------------------------------------------------
(* Generic helpers *)

Min(a, b) == IF a <= b THEN a ELSE b

\* All sequences over S of length 0..n.
RECURSIVE SeqsUpTo(_, _)
SeqsUpTo(S, n) ==
    IF n = 0 THEN {<<>>}
    ELSE LET shorter == SeqsUpTo(S, n - 1)
         IN  shorter \cup {Append(s, x) : s \in {t \in shorter : Len(t) = n - 1}, x \in S}

IsPrefix(s, t) == Len(s) <= Len(t) /\ s = SubSeq(t, 1, Len(s))

\* The idle value of the ingestion stream's variables in the other
\* specifications.
IdleIpc ==
    /\ mode = "Channel"
    /\ segments = <<>>
    /\ seg_next = 0
    /\ reader = [kind |-> "none"]
    /\ built = <<>>
    /\ results = <<>>
    /\ aborted = FALSE
    /\ events = <<>>
    /\ dropped = FALSE
    /\ other = [reader |-> [kind |-> "none"], seg_next |-> 0, built |-> <<>>,
                events |-> <<>>, results |-> <<>>, aborted |-> FALSE]
    /\ shared = FALSE

\* The idle value of the cast's variables in the other specifications.
IdleCast ==
    /\ cast_type = [kind |-> "Utf8"]
    /\ cast_input = <<>>
    /\ overflow_checks = FALSE
    /\ cast_output = [kind |-> "none", array |-> <<>>]
    /\ value_type = "Utf8"
    /\ cast_call = [entry |-> "none", path |-> "none"]

-----------------------------------------------------------------------------
(***************************************************************************)
(* LimitStream                                                             *)
(***************************************************************************)

MaxBatches == 3      \* items the child stream holds at most
MaxBatchRows == 2    \* rows of a child batch at most
MaxLimit == 3        \* LimitExec.limit at most
MaxPending == 1      \* times the child may answer Poll::Pending
MaxPollsPastEnd == 2 \* polls of the child after it has ended

\* An item of the child stream is a batch of 0..MaxBatchRows rows or an error;
\* in a sequence of batch sizes, ErrSize stands for an error item.
ErrSize == MaxBatchRows + 1

\* The child's items for a sequence of batch sizes; rows are numbered
\* 1, 2, ... in upstream order.
RECURSIVE MkItems(_, _)
MkItems(sizes, first) ==
    IF sizes = <<>> THEN <<>>
    ELSE IF Head(sizes) = ErrSize
         THEN <<[kind |-> "err", rows |-> <<>>]>> \o MkItems(Tail(sizes), first)
         ELSE <<[kind |-> "batch", rows |-> [i \in 1..Head(sizes) |-> first + i - 1]]>>
              \o MkItems(Tail(sizes), first + Head(sizes))

\* Every row of the child stream's batches, in upstream order.
RECURSIVE UpstreamRows(_)
UpstreamRows(items) ==
    IF items = <<>> THEN <<>> ELSE Head(items).rows \o UpstreamRows(Tail(items))

\* u64::saturating_sub
saturating_sub(a, b) == IF a >= b THEN a - b ELSE 0

\* RecordBatch::slice(offset, length), 0-based offset
slice(rows, offset, length) == SubSeq(rows, offset + 1, offset + length)

\* input_stream.poll_next_unpin: the outcomes of one poll of the child, each
\* with the child's state after it. The child may answer Pending (MaxPending
\* times), else it yields its next item, or None once it has none left.
ChildPoll(s) ==
    LET polled == [s EXCEPT !.polled = @ + 1]
    IN  (IF s.pending < MaxPending
         THEN {[stream |-> [polled EXCEPT !.pending = @ + 1],
                out |-> [kind |-> "pending", rows |-> <<>>]]}
         ELSE {})
        \cup
        {IF s.next < Len(s.items)
         THEN [stream |-> [polled EXCEPT !.next = @ + 1], out |-> s.items[s.next + 1]]
         ELSE [stream |-> polled, out |-> [kind |-> "eos", rows |-> <<>>]]}

\* The idle value of the limit stream's variables in the other specifications.
IdleLimit ==
    /\ limit = 0
    /\ cur = 0
    /\ input_stream = [items |-> <<>>, next |-> 0, polled |-> 0, pending |-> 0]
    /\ output_rows = 0
    /\ emitted = <<>>
    /\ lastPoll = [kind |-> "none", rows |-> <<>>]

\* LimitExec::execute: the stream starts with cur = 0 over the child's stream.
InitLimit ==
    /\ limit \in 0..MaxLimit
    /\ cur = 0
    /\ \E sizes \in SeqsUpTo(0..ErrSize, MaxBatches) :
           input_stream = [items |-> MkItems(sizes, 1), next |-> 0,
                           polled |-> 0, pending |-> 0]
    /\ output_rows = 0
    /\ emitted = <<>>
    /\ lastPoll = [kind |-> "none", rows |-> <<>>]
    /\ IdleIpc
    /\ IdleCast

\* LimitOutput with the child's error returned as the end of the stream (a
\* mutant of LimitOutput).
LimitOutput_ErrorAsEnd(out, rest) ==
    IF out.kind = "batch"
    THEN [kind |-> "batch",
          rows |-> IF Len(out.rows) <= rest THEN out.rows ELSE slice(out.rows, 0, rest)]
    ELSE IF out.kind = "err" THEN [kind |-> "eos", rows |-> <<>>]
    ELSE out

\* What LimitStream::poll_next returns for the child's answer `out` with `rest`
\* rows left: a batch is passed through, or cut to its first `rest` rows.
LimitOutput(out, rest) ==
    IF out.kind = "batch"
    THEN [kind |-> "batch",
          rows |-> IF Len(out.rows) <= rest THEN out.rows ELSE slice(out.rows, 0, rest)]
    ELSE out

\* LimitStream::poll_next. No branch assigns self.cur. The consumer may poll
\* again after the end of the stream; a child that has ended answers None
\* again (MaxPollsPastEnd caps the polls of an ended child).
LimitPollNext ==
    /\ input_stream.polled < Len(input_stream.items) + MaxPending + MaxPollsPastEnd
    /\ LET rest == saturating_sub(limit, cur)
       IN  IF rest = 0
           THEN /\ lastPoll' = [kind |-> "eos", rows |-> <<>>]
                /\ UNCHANGED <<input_stream, output_rows, emitted>>
           ELSE \E c \in ChildPoll(input_stream) :
                    LET ret == LimitOutput(c.out, rest)
                    IN  /\ input_stream' = c.stream
                        /\ lastPoll' = ret
                        /\ emitted' = emitted \o ret.rows
                        \* BaselineMetrics::record_poll counts the rows of a batch
                        /\ output_rows' = output_rows + Len(ret.rows)
    /\ UNCHANGED <<limit, cur>>
    /\ UNCHANGED <<ipcVars, castVars>>

NextLimit == LimitPollNext

SpecLimit == InitLimit /\ [][NextLimit]_vars


-----------------------------------------------------------------------------
(***************************************************************************)
(* IpcReaderStream and its readers                                         *)
(*                                                                         *)
(* Not modelled: a JNI failure of the provider's own hasNext()/next(), a   *)
(* failure of File::try_clone or of seek, and the compute-time metrics.    *)
(***************************************************************************)

MaxSize == 6         \* size of a partition's data: its segments, frames, items and faults

\* Bytes of a frame's length prefix.
LenPrefix == 8

\* IpcReadMode
Modes == {"ChannelUncompressed", "Channel", "ChannelAndFileSegment"}

(* The provider's data.  An encoded columnar stream is what arrow's        *)
(* StreamReader makes of its bytes: `header` tells whether try_new can     *)
(* read the schema message, and `items` are the outcomes of the successive *)
(* calls of next() ("batch": Some(Ok), "err": Some(Err)); after them       *)
(* next() is None.  A StreamReader is not closed by an error: the items    *)
(* after an "err" are what it reads on.  `schema` is the schema that the   *)
(* stream's schema message declares: the node's, or another one.           *)
NodeSchema == "node"

Schemas == {NodeSchema, "other"}

BadStream == [header |-> FALSE, schema |-> NodeSchema, items |-> <<>>]

\* The size of a stream: a batch counts 1, an error item 2, an unreadable
\* header 1, a schema that is not the node's 2.
RECURSIVE ItemsSize(_)
ItemsSize(items) ==
    IF items = <<>> THEN 0
    ELSE (IF Head(items) = "err" THEN 2 ELSE 1) + ItemsSize(Tail(items))

StreamSize(st) ==
    ItemsSize(st.items) + (IF st.header THEN 0 ELSE 1)
    + (IF st.schema = NodeSchema THEN 0 ELSE 2)

\* The streams of size at most n.
Streams(n) ==
    IF n < 0 THEN {}
    ELSE (IF n >= 1 THEN {BadStream} ELSE {}) \cup
         {st \in {[header |-> TRUE, schema |-> sc, items |-> it] :
                      sc \in Schemas, it \in SeqsUpTo({"batch", "err"}, n)} :
             StreamSize(st) <= n}

\* A frame of a file: the length its 8-byte prefix declares and the stream
\* its bytes hold (a longer stream takes more bytes).
FrameOf(stream) == [len |-> 3 + 2 * Len(stream.items), stream |-> stream]

\* The frame sequences of size at most n (a frame counts 1 and its stream),
\* built from those of the smaller sizes: sets[k + 1] holds those of size at
\* most k.
RECURSIVE FrameSeqsFrom(_, _)
FrameSeqsFrom(n, sets) ==
    LET k == Len(sets)
    IN  IF k > n THEN sets[n + 1]
        ELSE FrameSeqsFrom(n, Append(sets,
                 {<<>>} \cup
                 UNION {{<<FrameOf(st)>> \o rest : rest \in sets[k - StreamSize(st)]}
                        : st \in Streams(k - 1)}))

FrameSeqs(n) == IF n < 0 THEN {} ELSE FrameSeqsFrom(n, <<>>)

\* Bytes of the first k frames with their prefixes.
RECURSIVE FramesBytes(_, _)
FramesBytes(frames, k) ==
    IF k = 0 THEN 0 ELSE FramesBytes(frames, k - 1) + LenPrefix + frames[k].len

\* The region lengths that end a region after k whole frames of a file
\* holding `frames` from the region's offset on (the frames after them
\* belong to the next region).
WholeFrameLengths(frames) == {FramesBytes(frames, k) : k \in 0..Len(frames)}

\* The other region lengths tried: a region that ends one byte before the
\* end of its last frame, or one byte past the end of the file.
BrokenLengths(frames) ==
    {FramesBytes(frames, k) - 1 : k \in 1..Len(frames)}
    \cup {FramesBytes(frames, Len(frames)) + 1}

\* Where a region starts in its file.
Offsets == {16}

\* A segment the provider yields: a ReadableByteChannel whose bytes are a
\* stream, zstd-compressed or not, or a FileSegment (file, offset, length)
\* of a file that can be opened or not.  The segments of size at most n read
\* in mode m: a segment counts 1 and its streams and frames, and 1 more for
\* a channel whose compression is not the mode's, a file that cannot be
\* opened, or a region that does not end with a frame.
ChannelSegments(m, n) ==
    LET z == (m # "ChannelUncompressed")
    IN  {[kind |-> "channel", zstd |-> z, stream |-> st] : st \in Streams(n - 1)}
        \cup {[kind |-> "channel", zstd |-> ~z, stream |-> st] : st \in Streams(n - 2)}

PlainFile == [kind |-> "file", openable |-> TRUE, offset |-> 0, length |-> 0, frames |-> <<>>]

FileSegments(n) ==
    (IF n >= 2 THEN {[PlainFile EXCEPT !.openable = FALSE]} ELSE {})
    \cup
    UNION {{[kind |-> "file", openable |-> TRUE, offset |-> o, length |-> l, frames |-> fs] :
               o \in Offsets, l \in WholeFrameLengths(fs)}
           : fs \in FrameSeqs(n - 1)}
    \cup
    (IF n >= 2
     THEN UNION {{[kind |-> "file", openable |-> TRUE, offset |-> o, length |-> l,
                   frames |-> fs] : o \in Offsets, l \in BrokenLengths(fs)}
                 : fs \in FrameSeqs(n - 2)}
     ELSE {})

\* A channel reader never looks into a FileSegment, so in the channel modes
\* one FileSegment (of size 2) stands for all of them.
SegmentsFor(m, n) ==
    IF n = 0 THEN {}
    ELSE ChannelSegments(m, n) \cup
         (IF m = "ChannelAndFileSegment" THEN FileSegments(n)
          ELSE IF n >= 2 THEN {PlainFile} ELSE {})

RECURSIVE FramesSize(_, _)
FramesSize(frames, k) ==
    IF k = 0 THEN 0 ELSE FramesSize(frames, k - 1) + 1 + StreamSize(frames[k].stream)

SegmentSize(m, seg) ==
    IF seg.kind = "channel"
    THEN 1 + StreamSize(seg.stream) + (IF seg.zstd = (m # "ChannelUncompressed") THEN 0 ELSE 1)
    ELSE IF m # "ChannelAndFileSegment" THEN 2
    ELSE 1 + FramesSize(seg.frames, Len(seg.frames))
         + (IF seg.openable /\ seg.length \in WholeFrameLengths(seg.frames) THEN 0 ELSE 1)

\* The provider's segment sequences of size at most n for mode m, built
\* from those of the smaller sizes: sets[k + 1] holds those of size at most k.
RECURSIVE SegmentSeqsFrom(_, _, _)
SegmentSeqsFrom(m, n, sets) ==
    LET k == Len(sets)
    IN  IF k > n THEN sets[n + 1]
        ELSE SegmentSeqsFrom(m, n, Append(sets,
                 {<<>>} \cup
                 UNION {{<<seg>> \o rest : rest \in sets[k - SegmentSize(m, seg) + 1]}
                        : seg \in SegmentsFor(m, k)}))

SegmentSeqs(m, n) == SegmentSeqsFrom(m, n, <<>>)

MaxPolls == MaxSize + 1

(* Reader state *)

NoReader == [kind |-> "none"]
NoStreamReader == [open |-> FALSE, frame |-> 0, pos |-> 0]

\* What a poll or a read returns: kind is "batch" (batch idx of frame `frame`
\* of segment `seg`; frame 0 for a channel), "err", "eos" (Ready(None)),
\* "none" (a reader's None) or "abort" (a panic).
Out(kind, seg, frame, idx) == [kind |-> kind, seg |-> seg, frame |-> frame, idx |-> idx]
Plain(kind) == Out(kind, 0, 0, 0)

\* An observed step of the stream: the entry of an invocation ("poll_next",
\* "next_segment", "next_batch", "next_batch_impl") at its nesting depth,
\* the provider being asked ("hasNext"), a handle being taken ("open") or
\* released ("close"), the read of a length prefix at a file position
\* ("read_length"), a reader's result ("return").
Ev(e, seg, pos, out, depth) ==
    [e |-> e, seg |-> seg, pos |-> pos, out |-> out, depth |-> depth]

\* The segment a reader is on
SegOf(r) == IF r.kind = "none" THEN 0 ELSE r.seg

\* Dropping a reader without closing the channel of a channel reader (a
\* mutant of drop_reader).
drop_reader_ChannelLeftOpen(r, depth) ==
    IF r.kind # "file" THEN <<>> ELSE <<Ev("close", r.seg, 0, r.kind, depth)>>

\* Dropping a reader releases its handle: Drop for ReadableByteChannelReader
\* closes the channel, dropping the File closes the file.
drop_reader(r, depth) ==
    IF r.kind = "none" THEN <<>> ELSE <<Ev("close", r.seg, 0, r.kind, depth)>>

\* StreamReader::next at position pos of a stream
StreamReaderNext(stream, pos) ==
    IF pos < Len(stream.items) THEN stream.items[pos + 1] ELSE "none"

\* The outcomes of reading, as a byte channel, an object that is no
\* ReadableByteChannel: the JNI call is undefined; the JVM throws or dies.
UndefinedCall == {"err", "abort"}

\* ReadableByteChannelBatchReader::try_new over segment i: the channel is
\* wrapped in a ReadableByteChannelReader, the decoder is put on its bytes
\* and StreamReader::try_new reads the schema; on an error the wrapped
\* channel is dropped.
ChannelTryNew(i, compressed, ub, depth) ==
    LET seg == segments[i]
        opened == Ev("open", i, 0, "channel", depth)
    IN  IF seg.kind # "channel" THEN [ret |-> ub, reader |-> NoReader, events |-> <<>>]
        ELSE IF seg.zstd # compressed \/ ~seg.stream.header
        THEN [ret |-> "err", reader |-> NoReader,
              events |-> <<opened, Ev("close", i, 0, "channel", depth)>>]
        ELSE [ret |-> "ok",
              reader |-> [kind |-> "channel", seg |-> i, compressed |-> compressed,
                          pos |-> 0],
              events |-> <<opened>>]

\* get_channel_reader
get_channel_reader(i, compressed, ub, depth) == ChannelTryNew(i, compressed, ub, depth)

\* FileSegmentBatchReader::try_new with the region's end taken to be its
\* length (a mutant of FileTryNew).
FileTryNew_LimitIsLength(i, depth) ==
    LET seg == segments[i]
    IN  IF ~seg.openable THEN [ret |-> "err", reader |-> NoReader, events |-> <<>>]
        ELSE [ret |-> "ok",
              reader |-> [kind |-> "file", seg |-> i,
                          segment_reader |-> NoStreamReader,
                          current_ipc_length |-> 0,
                          current_start |-> seg.offset,
                          limit |-> seg.length],
              events |-> <<Ev("open", i, 0, "file", depth)>>]

\* FileSegmentBatchReader::try_new
FileTryNew(i, depth) ==
    LET seg == segments[i]
    IN  IF ~seg.openable THEN [ret |-> "err", reader |-> NoReader, events |-> <<>>]
        ELSE [ret |-> "ok",
              reader |-> [kind |-> "file", seg |-> i,
                          segment_reader |-> NoStreamReader,
                          current_ipc_length |-> 0,
                          current_start |-> seg.offset,
                          limit |-> seg.offset + seg.length],
              events |-> <<Ev("open", i, 0, "file", depth)>>]

\* get_file_segment_reader
get_file_segment_reader(i, depth) == FileTryNew(i, depth)

\* The match on self.mode with the `compressed` arguments of the two channel
\* modes exchanged (a mutant of ReaderChoice).
ReaderChoice_FlagsExchanged(m, seg) ==
    CASE m = "ChannelUncompressed" -> [reader |-> "channel", compressed |-> TRUE]
      [] m = "Channel" -> [reader |-> "channel", compressed |-> FALSE]
      [] m = "ChannelAndFileSegment" ->
            IF seg.kind = "file"
            THEN [reader |-> "file", compressed |-> FALSE]
            ELSE [reader |-> "channel", compressed |-> TRUE]

\* The match on self.mode in next_segment: which constructor is called for
\* a segment, and with which `compressed`.
ReaderChoice(m, seg) ==
    CASE m = "ChannelUncompressed" -> [reader |-> "channel", compressed |-> FALSE]
      [] m = "Channel" -> [reader |-> "channel", compressed |-> TRUE]
      [] m = "ChannelAndFileSegment" ->
            IF seg.kind = "file"   \* class name org.apache.spark.storage.FileSegment
            THEN [reader |-> "file", compressed |-> FALSE]
            ELSE [reader |-> "channel", compressed |-> TRUE]

\* The assignment `self.reader = Some(new)` of next_segment: the events of
\* making the new reader, then the drop of the reader it replaces.
assign_reader(old, made, depth) == made.events \o drop_reader(old, depth)

\* IpcReaderStream::next_segment on st = [reader, seg_next, built, events],
\* invoked at nesting depth `depth`: ret is "true", "false", "err" or "abort".
next_segment(st, ub, depth) ==
    LET entry == Ev("next_segment", SegOf(st.reader), 0, st.reader.kind, depth)
    IN  IF st.seg_next >= Len(segments)                     \* hasNext() is false
        THEN [st |-> [st EXCEPT !.reader = NoReader,
                                !.events = @ \o <<entry, Ev("hasNext", 0, 0, "false", depth)>>
                                             \o drop_reader(st.reader, depth)],
              ret |-> "false"]
        ELSE LET i == st.seg_next + 1                       \* next()
                 choice == ReaderChoice(mode, segments[i])
                 made == IF choice.reader = "file"
                         THEN get_file_segment_reader(i, depth)
                         ELSE get_channel_reader(i, choice.compressed, ub, depth)
                 asked == <<entry, Ev("hasNext", i, 0, "true", depth)>>
                 st1 == [st EXCEPT !.seg_next = i,
                                   !.built = Append(@, [seg |-> i, reader |-> choice.reader,
                                                        compressed |-> choice.compressed])]
             IN  IF made.ret = "ok"
                 THEN [st |-> [st1 EXCEPT !.reader = made.reader,
                                          !.events = @ \o asked
                                                       \o assign_reader(st.reader, made, depth)],
                       ret |-> "true"]
                 ELSE [st |-> [st1 EXCEPT !.events = @ \o asked \o made.events],
                       ret |-> made.ret]                    \* `?`: self.reader is kept

\* The stream that a batch was decoded from
StreamOf(out) ==
    IF segments[out.seg].kind = "channel" THEN segments[out.seg].stream
    ELSE segments[out.seg].frames[out.frame].stream

\* The schema of a batch that a reader returns: StreamReader::try_new is
\* given no schema and decodes the batches by the schema message of the
\* stream.
BatchSchema(out) == StreamOf(out).schema

\* RecordBatchStream::schema of the stream: the node's schema
schema == NodeSchema

\* ReadableByteChannelBatchReader::next_batch
ChannelNextBatch(r) ==
    LET item == StreamReaderNext(segments[r.seg].stream, r.pos)
    IN  IF item = "none" THEN [reader |-> r, out |-> Plain("none"), events |-> <<>>]
        ELSE [reader |-> [r EXCEPT !.pos = @ + 1],
              out |-> IF item = "batch" THEN Out("batch", r.seg, 0, r.pos + 1)
                      ELSE Plain("err"),
              events |-> <<>>]

\* Position in the file of frame k of segment seg (k = Len + 1: the end of
\* the file).
FramePos(seg, k) == seg.offset + FramesBytes(seg.frames, k - 1)

\* seek(current_start) and read_exact of 8 bytes: the frame that starts at
\* position p, if p is the start of one.  A reader only ever reads at the
\* start of a frame or at or past the end of the file, where read_exact
\* fails.
ReadLength(seg, p) ==
    LET at == {k \in 1..Len(seg.frames) : FramePos(seg, k) = p}
    IN  IF at = {} THEN [ok |-> FALSE, frame |-> 0, len |-> 0]
        ELSE LET k == CHOOSE k \in at : TRUE
             IN  [ok |-> TRUE, frame |-> k, len |-> seg.frames[k].len]

\* "not first ipc -- update start pos" without the bytes of the length
\* prefix (a mutant of AdvanceStart).
AdvanceStart_NoPrefix(r) ==
    [r EXCEPT !.current_start = @ + r.current_ipc_length]

\* "not first ipc -- update start pos"
AdvanceStart(r) ==
    [r EXCEPT !.current_start = @ + LenPrefix + r.current_ipc_length]

\* FileSegmentBatchReader::next_batch_impl invoked at nesting depth `depth`,
\* with next_batch's mapping of its result: out is a batch, "err", "none" or
\* "abort" (the unwrap of StreamReader::try_new).
RECURSIVE next_batch_impl(_, _)
next_batch_impl(r, depth) ==
    LET seg == segments[r.seg]
        sr == r.segment_reader
        item == IF sr.open THEN StreamReaderNext(seg.frames[sr.frame].stream, sr.pos)
                ELSE "none"
        entry == Ev("next_batch_impl", r.seg, r.current_start, "", depth)
    IN  IF item # "none"
        THEN [reader |-> [r EXCEPT !.segment_reader.pos = @ + 1],
              out |-> IF item = "batch" THEN Out("batch", r.seg, sr.frame, sr.pos + 1)
                      ELSE Plain("err"),
              events |-> <<entry>>]
        ELSE LET r1 == IF sr.open THEN AdvanceStart(r) ELSE r
             IN  IF r1.current_start < r1.limit
                 THEN LET rd == ReadLength(seg, r1.current_start)
                          r2 == [r1 EXCEPT !.current_ipc_length = rd.len]
                          read == Ev("read_length", r.seg, r1.current_start,
                                     IF rd.ok THEN "ok" ELSE "err", depth)
                      IN  IF ~rd.ok
                          THEN [reader |-> r1, out |-> Plain("err"),
                                events |-> <<entry, read>>]
                          ELSE IF ~seg.frames[rd.frame].stream.header
                          THEN [reader |-> r2, out |-> Plain("abort"),
                                events |-> <<entry, read>>]
                          ELSE LET nx == next_batch_impl(
                                             [r2 EXCEPT !.segment_reader =
                                                 [open |-> TRUE, frame |-> rd.frame,
                                                  pos |-> 0]],
                                             depth + 1)
                               IN  [nx EXCEPT !.events = <<entry, read>> \o @]
                 ELSE [reader |-> r1, out |-> Plain("none"), events |-> <<entry>>]

\* The position a reader is at
PosOf(r) == IF r.kind = "file" THEN r.current_start ELSE 0

\* next_batch that, having taken a batch, takes the reader's next result
\* ahead of the next poll (a mutant of next_batch).
next_batch_ReadsAhead(r, depth) ==
    LET call(rd) ==
            LET nb == IF rd.kind = "channel" THEN ChannelNextBatch(rd)
                      ELSE next_batch_impl(rd, depth + 1)
            IN  [nb EXCEPT !.events =
                     <<Ev("next_batch", rd.seg, PosOf(rd), rd.kind, depth)>> \o @
                     \o <<Ev("return", rd.seg, PosOf(nb.reader), nb.out.kind, depth)>>]
        first == call(r)
        ahead == call(first.reader)
    IN  IF first.out.kind = "batch"
        THEN [reader |-> ahead.reader, out |-> first.out,
              events |-> first.events \o ahead.events]
        ELSE first

\* RecordBatchReader::next_batch of the current reader, invoked at nesting
\* depth `depth`
next_batch(r, depth) ==
    LET nb == IF r.kind = "channel" THEN ChannelNextBatch(r)
              ELSE next_batch_impl(r, depth + 1)
    IN  [nb EXCEPT !.events = <<Ev("next_batch", r.seg, PosOf(r), r.kind, depth)>> \o @
                               \o <<Ev("return", r.seg, PosOf(nb.reader), nb.out.kind, depth)>>]

\* IpcReaderStream::poll_next on st = [reader, seg_next, built, events],
\* invoked at nesting depth `depth`
RECURSIVE poll_next(_, _, _)
poll_next(st, ub, depth) ==
    LET entry == Ev("poll_next", SegOf(st.reader), 0, st.reader.kind, depth)
        nb == IF st.reader.kind # "none" THEN next_batch(st.reader, depth + 1)
              ELSE [reader |-> st.reader, out |-> Plain("none"), events |-> <<>>]
        st1 == [st EXCEPT !.reader = nb.reader, !.events = @ \o <<entry>> \o nb.events]
    IN  IF nb.out.kind # "none"
        THEN [st |-> st1, out |-> nb.out]
        ELSE LET ns == next_segment(st1, ub, depth + 1)
             IN  CASE ns.ret = "true" -> poll_next(ns.st, ub, depth + 1)
                   [] ns.ret = "false" -> [st |-> ns.st, out |-> Plain("eos")]
                   [] OTHER -> [st |-> ns.st, out |-> Plain(ns.ret)]

\* IpcReaderStream::new: a stream before its first poll, with the
\* observers of its polls
NewStream ==
    [reader |-> NoReader, seg_next |-> 0, built |-> <<>>, events |-> <<>>,
     results |-> <<>>, aborted |-> FALSE]

\* The state of the stream
StreamState == [reader |-> reader, seg_next |-> seg_next, built |-> built, events |-> events]

\* IpcReaderExec::execute: the stream starts with no reader, on the
\* provider's iterator.
InitIpc ==
    /\ mode \in Modes
    /\ segments \in SegmentSeqs(mode, MaxSize)
    /\ seg_next = 0
    /\ reader = NoReader
    /\ built = <<>>
    /\ results = <<>>
    /\ aborted = FALSE
    /\ events = <<>>
    /\ dropped = FALSE
    /\ other = NewStream
    /\ shared = FALSE
    /\ IdleLimit
    /\ IdleCast

\* One poll of the stream by its consumer, who may poll on after an error
\* and after the end of the stream (until it has been told the end
\* MaxPollsPastEnd times), and is gone after a panic.  Each result is
\* recorded with the number of segments asked of the provider so far.
IpcPollNext ==
    /\ ~aborted
    /\ ~dropped
    /\ Len(results) < MaxPolls
    /\ Cardinality({i \in 1..Len(results) : results[i].out.kind = "eos"}) < MaxPollsPastEnd
    /\ \E ub \in UndefinedCall :
           LET p == poll_next(StreamState, ub, 1)
           IN  /\ reader' = p.st.reader
               /\ seg_next' = p.st.seg_next
               /\ built' = p.st.built
               /\ events' = p.st.events
               /\ results' = Append(results, [out |-> p.out, asked |-> p.st.seg_next])
               /\ aborted' = (p.out.kind = "abort")
    /\ UNCHANGED <<mode, segments, dropped, other, shared>>
    /\ UNCHANGED <<limitVars, castVars>>

\* The consumer drops the stream, at any point of its life: its reader, if
\* it has one, is dropped with it.
IpcDrop ==
    /\ ~dropped
    /\ dropped' = TRUE
    /\ events' = events \o drop_reader(reader, 0)
    /\ reader' = NoReader
    /\ UNCHANGED <<mode, segments, seg_next, built, results, aborted, other, shared>>
    /\ UNCHANGED <<limitVars, castVars>>

NextIpc == IpcPollNext \/ IpcDrop

SpecIpc == InitIpc /\ [][NextIpc]_vars

-----------------------------------------------------------------------------
(***************************************************************************)
(* Two partitions of one IpcReaderExec                                     *)
(*                                                                         *)
(* execute resolves the provider by the node's ipc_provider_resource_id,   *)
(* the same for every partition, and takes what its apply() returns as the *)
(* stream's iterator.  Whether two calls of apply() return one iterator or *)
(* two independent ones is the host's: `shared` is that choice.            *)
(***************************************************************************)

MaxPairSize == 3     \* size of the data that two streams read

MaxPairPolls == MaxPairSize + 1

\* IpcReaderExec::execute for two partitions
InitIpcPair ==
    /\ mode \in Modes
    /\ segments \in SegmentSeqs(mode, MaxPairSize)
    /\ shared \in BOOLEAN
    /\ seg_next = 0
    /\ reader = NoReader
    /\ built = <<>>
    /\ results = <<>>
    /\ aborted = FALSE
    /\ events = <<>>
    /\ dropped = FALSE
    /\ other = NewStream
    /\ IdleLimit
    /\ IdleCast

\* The state of the other stream
OtherState ==
    [reader |-> other.reader, seg_next |-> other.seg_next,
     built |-> other.built, events |-> other.events]

\* A poll of the first stream; an iterator shared with the other stream has
\* moved for both.
PairPollFirst ==
    /\ ~aborted
    /\ Len(results) < MaxPairPolls
    /\ \E ub \in UndefinedCall : \E p \in {poll_next(StreamState, ub, 1)} :
           /\ reader' = p.st.reader
           /\ seg_next' = p.st.seg_next
           /\ built' = p.st.built
           /\ events' = p.st.events
           /\ results' = Append(results, [out |-> p.out, asked |-> p.st.seg_next])
           /\ aborted' = (p.out.kind = "abort")
           /\ other' = IF shared THEN [other EXCEPT !.seg_next = p.st.seg_next]
                       ELSE other
    /\ UNCHANGED <<mode, segments, dropped, shared>>
    /\ UNCHANGED <<limitVars, castVars>>

\* A poll of the other stream
PairPollSecond ==
    /\ ~other.aborted
    /\ Len(other.results) < MaxPairPolls
    /\ \E ub \in UndefinedCall : \E p \in {poll_next(OtherState, ub, 1)} :
           /\ other' = [reader |-> p.st.reader, seg_next |-> p.st.seg_next,
                        built |-> p.st.built, events |-> p.st.events,
                        results |-> Append(other.results,
                                           [out |-> p.out, asked |-> p.st.seg_next]),
                        aborted |-> (p.out.kind = "abort")]
           /\ seg_next' = IF shared THEN p.st.seg_next ELSE seg_next
    /\ UNCHANGED <<mode, segments, reader, built, results, aborted, events, dropped, shared>>
    /\ UNCHANGED <<limitVars, castVars>>

NextIpcPair == PairPollFirst \/ PairPollSecond

SpecIpcPair == InitIpcPair /\ [][NextIpcPair]_vars

-----------------------------------------------------------------------------
(***************************************************************************)
(* TryCastExpr: string to integer                                          *)
(*                                                                         *)
(* A string is the sequence of its bytes, each a one-character string.     *)
(* An array element is a record: null, or a value.                         *)
(***************************************************************************)

\* Bounds
MaxStrLen == 3       \* every string over IntChars up to this length is an input
VariedDigits == 2    \* boundary inputs: this many trailing digits of |min_value| vary

\* b'0'..=b'9'
Digits == <<"0", "1", "2", "3", "4", "5", "6", "7", "8", "9">>

DigitSet == {Digits[d] : d \in 1..Len(Digits)}

IsDigit(b) == b \in DigitSet

\* b - b'0'
DigitOf(b) == (CHOOSE d \in 1..Len(Digits) : Digits[d] = b) - 1

\* The integer targets of the cast whose values fit the checker's integers:
\* Int8, Int16, Int32.
Widths == {8, 16, 32}

\* T::min_value() and T::max_value() of the signed integer of width w
min_value(w) == LET h == 2^(w - 2) IN -h - h

max_value(w) == LET h == 2^(w - 2) IN (h - 1) + h

\* a + b in width w: the wrapped sum, and whether the sum overflowed.
add(a, b, w) ==
    IF b >= 0 /\ a > max_value(w) - b
    THEN [v |-> min_value(w) + ((a - (max_value(w) - b)) - 1), overflow |-> TRUE]
    ELSE IF b < 0 /\ a < min_value(w) - b
    THEN [v |-> max_value(w) - (((min_value(w) - b) - a) - 1), overflow |-> TRUE]
    ELSE [v |-> a + b, overflow |-> FALSE]

\* a - digit in width w (digit in 0..9)
sub(a, digit, w) == add(a, -digit, w)

\* a * b in width w, for b >= 0: the exact product when it is in range,
\* else the wrapped one, as b additions of a.
RECURSIVE mul(_, _, _)
mul(a, b, w) ==
    IF b = 0 THEN [v |-> 0, overflow |-> FALSE]
    ELSE IF a <= 0 /\ a >= (min_value(w) + (b - 1)) \div b    \* a * b >= min_value
    THEN [v |-> a * b, overflow |-> FALSE]
    ELSE LET m == mul(a, b - 1, w)
             s == add(m.v, a, w)
         IN  [v |-> s.v, overflow |-> m.overflow \/ s.overflow]

\* -a in width w
neg(a, w) ==
    IF a = min_value(w) THEN [v |-> a, overflow |-> TRUE]
    ELSE [v |-> -a, overflow |-> FALSE]

\* a / b of the signed integers, for a <= 0 < b: the quotient truncated
\* towards zero.
div(a, b) == (a + (b - 1)) \div b

radix == 10

None == [ret |-> "none", v |-> 0]

Some(x) == [ret |-> "some", v |-> x]

\* An arithmetic overflow in a build with overflow checks
Panic == [ret |-> "panic", v |-> 0]

\* The first loop of to_integer: the digits up to the separator.  `offset`
\* counts the bytes consumed.
RECURSIVE accumulate(_, _, _, _, _)
accumulate(bytes, offset, result, w, checks) ==
    IF offset >= Len(bytes) THEN [ret |-> "done", offset |-> offset, v |-> result]
    ELSE LET b == bytes[offset + 1]
             stop_value == div(min_value(w), radix)
         IN  IF b = "." THEN [ret |-> "done", offset |-> offset + 1, v |-> result]
             ELSE IF ~IsDigit(b) THEN None
             ELSE IF result < stop_value THEN None
             ELSE LET m == mul(result, radix, w)
                      s == sub(m.v, DigitOf(b), w)
                  IN  IF checks /\ (m.overflow \/ s.overflow) THEN Panic
                      ELSE IF s.v > 0 THEN None
                      ELSE accumulate(bytes, offset + 1, s.v, w, checks)

\* The second loop of to_integer: the bytes after the separator are digits.
fraction_is_digits(bytes, offset) ==
    \A i \in (offset + 1)..Len(bytes) : IsDigit(bytes[i])

\* to_integer that takes no digit before the separator for a malformed
\* input (a mutant of to_integer).
to_integer_PointNeedsDigit(input, w, checks) ==
    LET bytes == input
    IN  IF Len(bytes) = 0 THEN None
        ELSE LET negative == bytes[1] = "-"
                 signed == negative \/ bytes[1] = "+"
                 first == IF signed THEN 1 ELSE 0
             IN  IF signed /\ Len(bytes) = 1 THEN None
                 ELSE IF bytes[first + 1] = "." THEN None
                 ELSE LET acc == accumulate(bytes, first, 0, w, checks)
                      IN  IF acc.ret # "done" THEN acc
                          ELSE IF ~fraction_is_digits(bytes, acc.offset) THEN None
                          ELSE IF negative THEN Some(acc.v)
                          ELSE LET n == neg(acc.v, w)
                               IN  IF checks /\ n.overflow THEN Panic
                                   ELSE IF n.v < 0 THEN None
                                   ELSE Some(n.v)

to_integer(input, w, checks) ==
    LET bytes == input
    IN  IF Len(bytes) = 0 THEN None
        ELSE LET negative == bytes[1] = "-"
                 signed == negative \/ bytes[1] = "+"
             IN  IF signed /\ Len(bytes) = 1 THEN None
                 ELSE LET acc == accumulate(bytes, IF signed THEN 1 ELSE 0, 0, w, checks)
                      IN  IF acc.ret # "done" THEN acc
                          ELSE IF ~fraction_is_digits(bytes, acc.offset) THEN None
                          ELSE IF negative THEN Some(acc.v)
                          ELSE LET n == neg(acc.v, w)
                               IN  IF checks /\ n.overflow THEN Panic
                                   ELSE IF n.v < 0 THEN None
                                   ELSE Some(n.v)

\* No cast function has been called
NoCall == [entry |-> "none", path |-> "none"]

\* Array elements
NullStr == [null |-> TRUE, s |-> <<>>]

StrValue(s) == [null |-> FALSE, s |-> s]

NullValue == [null |-> TRUE, v |-> 0]

Value(x) == [null |-> FALSE, v |-> x]

\* The loop of try_cast_string_array_to_integer over array[i..], appending
\* to the builder; a panic ends the cast.
RECURSIVE cast_integers_from(_, _, _, _, _)
cast_integers_from(array, i, builder, w, checks) ==
    IF i > Len(array) THEN [kind |-> "ok", array |-> builder]
    ELSE IF array[i].null
    THEN cast_integers_from(array, i + 1, Append(builder, NullValue), w, checks)
    ELSE LET r == to_integer(array[i].s, w, checks)
         IN  IF r.ret = "panic" THEN [kind |-> "abort", array |-> <<>>]
             ELSE cast_integers_from(array, i + 1,
                      Append(builder, IF r.ret = "some" THEN Value(r.v) ELSE NullValue),
                      w, checks)

try_cast_string_array_to_integer(array, type, checks) ==
    cast_integers_from(array, 1, <<>>, type.width, checks)

(* Inputs *)

IntChars == {"-", "+", ".", " ", "x", "0", "1", "9"}

\* The decimal digits of -n, for n <= 0.
RECURSIVE DigitsOfNeg(_)
DigitsOfNeg(n) ==
    LET d == (10 - (n % 10)) % 10
        rest == (n + d) \div 10
    IN  IF rest = 0 THEN <<Digits[d + 1]>>
        ELSE Append(DigitsOfNeg(rest), Digits[d + 1])

\* Digit strings around the bounds of width w: |min_value| with its last
\* digits varied, with one more digit, and with a leading zero.
BoundaryBodies(w) ==
    LET D == DigitsOfNeg(min_value(w))
        k == Min(VariedDigits, Len(D))
    IN  {SubSeq(D, 1, Len(D) - k) \o t : t \in {u \in SeqsUpTo(DigitSet, k) : Len(u) = k}}
        \cup {Append(D, d) : d \in DigitSet}
        \cup {<<"0">> \o D}

Signs == {<<>>, <<"-">>, <<"+">>}

Tails == {<<>>, <<".">>, <<".", "9">>, <<".", "x">>, <<"x">>, <<" ">>}

IntInputs(w) ==
    SeqsUpTo(IntChars, MaxStrLen)
    \cup {s \o b \o t : s \in Signs, b \in BoundaryBodies(w), t \in Tails}

\* What may follow an input in its array
Companions == {NullStr, StrValue(<<"1">>)}

Arrays(S) ==
    {<<StrValue(s)>> : s \in S} \cup {<<StrValue(s), c>> : s \in S, c \in Companions}

InitInt ==
    /\ \E w \in Widths :
           /\ cast_type = [kind |-> "Int", width |-> w]
           /\ cast_input \in Arrays(IntInputs(w))
    /\ overflow_checks \in BOOLEAN
    /\ cast_output = [kind |-> "none", array |-> <<>>]
    /\ value_type = "Utf8"
    /\ cast_call = NoCall
    /\ IdleLimit
    /\ IdleIpc

-----------------------------------------------------------------------------
(***************************************************************************)
(* TryCastExpr: string to decimal                                          *)
(*                                                                         *)
(* bigdecimal's BigDecimal is int_val * 10^-scale.  The BigInt that        *)
(* with_scale makes can exceed the checker's integers: a big integer is    *)
(* the record [m, z] of value m * 10^z.                                    *)
(***************************************************************************)

\* Bounds
MaxDecLen == 4       \* every string over DecChars up to this length is an input
MaxPrecision == 2    \* Decimal128(precision, scale): 1 <= precision <= MaxPrecision

\* i128::MAX is 170141183460469231731687303715884105727: its number of
\* digits, and its leading digits.
I128Digits == 39

I128MaxLead == 170141183

I128LeadDigits == 9

ParseErr == [ok |-> FALSE, v |-> 0]

Parsed(x) == [ok |-> TRUE, v |-> x]

\* str::find: the index of the first byte of s in the set C, 0 if none
find(s, C) ==
    IF \E i \in 1..Len(s) : s[i] \in C
    THEN CHOOSE i \in 1..Len(s) : s[i] \in C /\ \A j \in 1..(i - 1) : s[j] \notin C
    ELSE 0

\* The number that a string of digits denotes
RECURSIVE NatOf(_)
NatOf(ds) ==
    IF ds = <<>> THEN 0
    ELSE NatOf(SubSeq(ds, 1, Len(ds) - 1)) * 10 + DigitOf(ds[Len(ds)])

AllDigits(s) == \A i \in 1..Len(s) : IsDigit(s[i])

\* i64::from_str: an optional sign and one or more digits
i64_from_str(src) ==
    LET signed == Len(src) > 0 /\ src[1] \in {"-", "+"}
        ds == IF signed THEN Tail(src) ELSE src
    IN  IF ds = <<>> \/ ~AllDigits(ds) THEN ParseErr
        ELSE Parsed(IF signed /\ src[1] = "-" THEN -NatOf(ds) ELSE NatOf(ds))

\* BigUint::from_str_radix(s, 10): one '+' is skipped unless another follows
BigUint_from_str_radix(s) ==
    LET plus == Len(s) > 0 /\ s[1] = "+" /\ ~(Len(s) > 1 /\ s[2] = "+")
        ds == IF plus THEN Tail(s) ELSE s
    IN  IF ds = <<>> \/ ~AllDigits(ds) THEN ParseErr ELSE Parsed(NatOf(ds))

\* BigInt::from_str_radix(s, 10): one '-' is the sign unless a '+' follows
BigInt_from_str_radix(s) ==
    LET minus == Len(s) > 0 /\ s[1] = "-"
        bu == BigUint_from_str_radix(
                  IF minus /\ ~(Len(s) > 1 /\ s[2] = "+") THEN Tail(s) ELSE s)
    IN  IF ~bu.ok THEN ParseErr
        ELSE Parsed(IF minus THEN -bu.v ELSE bu.v)

NoDecimal == [ok |-> FALSE, int_val |-> 0, scale |-> 0]

\* BigDecimal::from_str
from_str(s) ==
    LET loc == find(s, {"e", "E"})
        base_part == IF loc = 0 THEN s ELSE SubSeq(s, 1, loc - 1)
        exp0 == IF loc = 0 THEN <<>> ELSE SubSeq(s, loc + 1, Len(s))
        exp == IF Len(exp0) > 0 /\ exp0[1] = "+" THEN Tail(exp0) ELSE exp0
        exponent_value == IF loc = 0 THEN Parsed(0) ELSE i64_from_str(exp)
    IN  IF ~exponent_value.ok \/ base_part = <<>> THEN NoDecimal
        ELSE LET dot == find(base_part, {"."})
                 digits == IF dot = 0 THEN base_part
                           ELSE SubSeq(base_part, 1, dot - 1)
                                \o SubSeq(base_part, dot + 1, Len(base_part))
                 decimal_offset == IF dot = 0 THEN 0 ELSE Len(base_part) - dot
                 big_int == BigInt_from_str_radix(digits)
             IN  IF ~big_int.ok THEN NoDecimal
                 ELSE [ok |-> TRUE, int_val |-> big_int.v,
                       scale |-> decimal_offset - exponent_value.v]

Abs(n) == IF n < 0 THEN -n ELSE n

\* BigDecimal::digits: the number of decimal digits of int_val, 1 for zero
RECURSIVE count_digits(_)
count_digits(n) == IF Abs(n) < 10 THEN 1 ELSE 1 + count_digits(Abs(n) \div 10)

ten_to_the(k) == 10 ^ k

\* BigInt::div_rem: the quotient truncated towards zero, and the remainder
div_rem(a, b) ==
    LET q == IF a >= 0 THEN a \div b ELSE -((-a) \div b)
    IN  [q |-> q, r |-> a - b * q]

\* get_rounding_term: 1 if the leading digit of num > 0 is 5 or more
get_rounding_term(num) ==
    IF num = 0 THEN 0
    ELSE IF num \div ten_to_the(count_digits(num) - 1) >= 5 THEN 1
    ELSE 0

\* BigDecimal::with_prec
with_prec(d, prec) ==
    LET digits == count_digits(d.int_val)
    IN  IF digits > prec
        THEN LET diff == digits - prec
                 p == ten_to_the(diff)
                 qr == div_rem(d.int_val, p)
                 q == IF p < 10 * qr.r THEN qr.q + get_rounding_term(qr.r) ELSE qr.q
             IN  [int_val |-> q, scale |-> d.scale - diff]
        ELSE IF digits < prec
        THEN LET diff == prec - digits
             IN  [int_val |-> d.int_val * ten_to_the(diff), scale |-> d.scale + diff]
        ELSE [int_val |-> d.int_val, scale |-> d.scale]

Big(m, z) == [m |-> m, z |-> z]

\* BigDecimal::with_scale
with_scale(d, new_scale) ==
    IF d.int_val = 0 THEN [int_val |-> Big(0, 0), scale |-> new_scale]
    ELSE IF new_scale > d.scale
    THEN [int_val |-> Big(d.int_val, new_scale - d.scale), scale |-> new_scale]
    ELSE IF new_scale < d.scale
    THEN LET k == d.scale - new_scale
         IN  [int_val |-> Big(IF k >= count_digits(d.int_val) THEN 0
                              ELSE div_rem(d.int_val, ten_to_the(k)).q, 0),
              scale |-> new_scale]
    ELSE [int_val |-> Big(d.int_val, 0), scale |-> new_scale]

\* The number of decimal digits of a big integer
BigDigits(b) == IF b.m = 0 THEN 1 ELSE count_digits(b.m) + b.z

\* BigInt::to_i128: does the value fit 128 bits
fits_i128(b) ==
    \/ BigDigits(b) < I128Digits
    \/ /\ BigDigits(b) = I128Digits
       /\ count_digits(b.m) <= I128LeadDigits
       /\ Abs(b.m) <= I128MaxLead \div ten_to_the(I128LeadDigits - count_digits(b.m))

to_decimal(input, precision, scale) ==
    LET parsed == from_str(input)
    IN  IF ~parsed.ok THEN None
        ELSE LET decimal == with_scale(with_prec(parsed, precision), scale)
             IN  IF fits_i128(decimal.int_val) THEN Some(decimal.int_val) ELSE None

\* Decimal128Builder::append_value validates the value against the
\* precision: its magnitude is at most 10^precision - 1.
validate_decimal_precision(b, precision) == b.m = 0 \/ BigDigits(b) <= precision

\* The loop of try_cast_string_array_to_decimal over array[i..]; the error
\* of append_value is the cast's result.
RECURSIVE cast_decimals_from(_, _, _, _, _)
cast_decimals_from(array, i, builder, precision, scale) ==
    IF i > Len(array) THEN [kind |-> "ok", array |-> builder]
    ELSE IF array[i].null
    THEN cast_decimals_from(array, i + 1, Append(builder, NullValue), precision, scale)
    ELSE LET r == to_decimal(array[i].s, precision, scale)
         IN  IF r.ret = "none"
             THEN cast_decimals_from(array, i + 1, Append(builder, NullValue),
                                     precision, scale)
             ELSE IF ~validate_decimal_precision(r.v, precision)
             THEN [kind |-> "err", array |-> <<>>]
             ELSE cast_decimals_from(array, i + 1,
                      Append(builder, Value(r.v.m * ten_to_the(r.v.z))),
                      precision, scale)

\* The `if let` fails for a cast type that is no Decimal128 and the
\* function ends in unreachable!, a panic.
try_cast_string_array_to_decimal(array, type) ==
    IF type.kind # "Decimal" THEN [kind |-> "abort", array |-> <<>>]
    ELSE cast_decimals_from(array, 1, <<>>, type.precision, type.scale)

(* Inputs *)

DecChars == {"-", "+", ".", "e", "0", "1", "5", "9"}

DecimalTypes ==
    {[kind |-> "Decimal", precision |-> p, scale |-> s] :
        p \in 1..MaxPrecision, s \in 0..MaxPrecision}

InitDecimal ==
    /\ cast_type \in {t \in DecimalTypes : t.scale <= t.precision}
    /\ cast_input \in Arrays(SeqsUpTo(DecChars, MaxDecLen))
    /\ overflow_checks \in BOOLEAN
    /\ cast_output = [kind |-> "none", array |-> <<>>]
    /\ value_type = "Utf8"
    /\ cast_call = NoCall
    /\ IdleLimit
    /\ IdleIpc

-----------------------------------------------------------------------------
(* TryCastExpr::evaluate *)

\* The match of evaluate on the value's type and the cast type, with the
\* arm of Utf8 to an integer sent to the decimal cast (a mutant of
\* cast_path).
cast_path_IntegerToDecimal(vtype, type) ==
    IF vtype = "Utf8" /\ type.kind \in {"Int", "Decimal"} THEN "decimal"
    ELSE "kernel"

\* The match of evaluate on the value's type and the cast type: the cast
\* function of each arm.
cast_path(vtype, type) ==
    IF vtype = "Utf8" /\ type.kind = "Int" THEN "integer"
    ELSE IF vtype = "Utf8" /\ type.kind = "Decimal" THEN "decimal"
    ELSE "kernel"

\* The default arm: arrow's cast kernel, whose result is not modelled
Delegated == [kind |-> "kernel", array |-> <<>>]

evaluate(array, vtype, type, checks) ==
    LET path == cast_path(vtype, type)
    IN  IF path = "integer" THEN try_cast_string_array_to_integer(array, type, checks)
        ELSE IF path = "decimal" THEN try_cast_string_array_to_decimal(array, type)
        ELSE Delegated

Evaluate ==
    /\ cast_output' = evaluate(cast_input, value_type, cast_type, overflow_checks)
    /\ cast_call' = [entry |-> "evaluate", path |-> cast_path(value_type, cast_type)]
    /\ UNCHANGED <<cast_type, cast_input, overflow_checks, value_type>>
    /\ UNCHANGED <<limitVars, ipcVars>>

NextCast == Evaluate

SpecInt == InitInt /\ [][NextCast]_vars

SpecDecimal == InitDecimal /\ [][NextCast]_vars

(* The cast functions over every value type and cast type *)

MaxCastLen == 2      \* the strings of the arrays: every string over DecChars up to this length

ValueTypes == {"Utf8", "Int32"}

CastTypes ==
    {[kind |-> "Int", width |-> w] : w \in Widths}
    \cup {t \in DecimalTypes : t.scale <= t.precision}
    \cup {[kind |-> "Utf8"], [kind |-> "Float64"]}

InitCast ==
    /\ value_type \in ValueTypes
    /\ cast_type \in CastTypes
    /\ cast_input \in Arrays(SeqsUpTo(DecChars, MaxCastLen))
    /\ overflow_checks \in BOOLEAN
    /\ cast_output = [kind |-> "none", array |-> <<>>]
    /\ cast_call = NoCall
    /\ IdleLimit
    /\ IdleIpc

\* try_cast_string_array_to_decimal called on a string array by a caller
\* other than evaluate, with any cast type
CallDecimalPath ==
    /\ value_type = "Utf8"
    /\ cast_output' = try_cast_string_array_to_decimal(cast_input, cast_type)
    /\ cast_call' = [entry |-> "direct", path |-> "decimal"]
    /\ UNCHANGED <<cast_type, cast_input, overflow_checks, value_type>>
    /\ UNCHANGED <<limitVars, ipcVars>>

NextCastPaths == Evaluate \/ CallDecimalPath

SpecCast == InitCast /\ [][NextCastPaths]_vars

-----------------------------------------------------------------------------
(* Claims about the limit stream *)

\* The rows of the child's batches in total (R).
TotalRows == Len(UpstreamRows(input_stream.items))

\* C1: polled to the end of the stream, the limit stream has emitted exactly
\* min(limit, R) rows, R the rows of the child's batches in total, however
\* the child splits them into batches.
C1_EmitsMinOfLimitAndRows ==
    lastPoll.kind = "eos" => Len(emitted) = Min(limit, TotalRows)

\* C2: once the limit stream has emitted `limit` rows, no later poll of it
\* polls the child again.
C2_NoChildPollAfterBound ==
    [][Len(emitted) >= limit => input_stream'.polled = input_stream.polled]_vars

\* C3: the rows emitted so far are a prefix of the child's rows in upstream
\* order: none is skipped, reordered or altered.
C3_EmittedIsPrefixOfUpstream ==
    IsPrefix(emitted, UpstreamRows(input_stream.items))


(* Claims about the ingestion stream *)

\* The batches among the first n results, in order.
RECURSIVE BatchesOf(_, _)
BatchesOf(res, n) ==
    IF n = 0 THEN <<>>
    ELSE BatchesOf(res, n - 1) \o
         (IF res[n].out.kind = "batch" THEN <<res[n].out>> ELSE <<>>)

ResultKinds == {results[i].out.kind : i \in 1..Len(results)}

\* Whether the first k frames of a file are sound: readable header, batches only.
SoundFrames(frames, k) ==
    \A f \in 1..k : frames[f].stream.header /\ \A j \in DOMAIN frames[f].stream.items :
                        frames[f].stream.items[j] = "batch"

\* The frames of a file region that lie wholly inside the region.
FramesInRegion(seg) ==
    {k \in 1..Len(seg.frames) : FramesBytes(seg.frames, k) <= seg.length}

\* Segment seg decodes to batches under the stream's mode: a channel whose
\* bytes are compressed as the mode expects and hold a sound stream, or (in
\* the mixed mode) a region of a file that can be opened, ending with a whole
\* frame, all of its frames sound.
Decodes(seg) ==
    IF seg.kind = "channel"
    THEN /\ seg.zstd = (mode # "ChannelUncompressed")
         /\ seg.stream.header
         /\ \A j \in DOMAIN seg.stream.items : seg.stream.items[j] = "batch"
    ELSE /\ mode = "ChannelAndFileSegment"
         /\ seg.openable
         /\ seg.length \in WholeFrameLengths(seg.frames)
         /\ SoundFrames(seg.frames, Cardinality(FramesInRegion(seg)))

\* The batches of frame f of segment i (f = 0: of the channel), in decoder
\* order.
BatchesOfStream(i, f, st) == [j \in 1..Len(st.items) |-> Out("batch", i, f, j)]

RECURSIVE BatchesOfFrames(_, _)
BatchesOfFrames(i, k) ==
    IF k = 0 THEN <<>>
    ELSE BatchesOfFrames(i, k - 1) \o BatchesOfStream(i, k, segments[i].frames[k].stream)

\* The batches of the first n segments: segment order, then frame order,
\* then decoder order.
RECURSIVE ExpectedBatches(_)
ExpectedBatches(n) ==
    IF n = 0 THEN <<>>
    ELSE ExpectedBatches(n - 1) \o
         (IF segments[n].kind = "channel"
          THEN BatchesOfStream(n, 0, segments[n].stream)
          ELSE BatchesOfFrames(n, Cardinality(FramesInRegion(segments[n]))))

AllDecode == \A i \in 1..Len(segments) : Decodes(segments[i])

\* C4: when every segment S1..Sk of the provider decodes to batches, the
\* stream yields nothing but batches, in segment order, then frame order,
\* then decoder order, and at its end it has yielded every one of them once.
C4_YieldsAllBatchesInOrder ==
    AllDecode =>
        /\ ResultKinds \subseteq {"batch", "eos"}
        /\ IsPrefix(BatchesOf(results, Len(results)), ExpectedBatches(Len(segments)))
        /\ "eos" \in ResultKinds =>
               BatchesOf(results, Len(results)) = ExpectedBatches(Len(segments))

\* C4's case: the stream has ended after two batches of one frame and a
\* batch of the next frame (or of the next segment), all segments decoding.
C4_Witness ==
    /\ AllDecode
    /\ "eos" \in ResultKinds
    /\ \E i \in 1..Len(results) - 2 :
           /\ results[i].out.kind = "batch" /\ results[i].out.idx = 1
           /\ results[i + 1].out.kind = "batch" /\ results[i + 1].out.idx = 2
           /\ results[i + 2].out.kind = "batch"
           /\ <<results[i + 2].out.seg, results[i + 2].out.frame>>
                  # <<results[i].out.seg, results[i].out.frame>>

\* C5: a stream yields at most one error item, the poll after it returns the
\* end of the stream, and after it no batch is yielded and no segment is
\* asked of the provider.
C5_ErrorEndsStream ==
    \A i \in 1..Len(results) :
        results[i].out.kind = "err" =>
            \A j \in (i + 1)..Len(results) :
                /\ results[j].out.kind = "eos"
                /\ results[j].asked = results[i].asked

\* C6: no batch is yielded from a frame of a file region whose declared
\* length reaches past the end of the region.
C6_NoBatchPastRegion ==
    \A i \in 1..Len(results) :
        LET o == results[i].out
        IN  (o.kind = "batch" /\ o.frame > 0) => o.frame \in FramesInRegion(segments[o.seg])

\* C10: the reader built for each segment follows the mode: uncompressed
\* channel reader (ChannelUncompressed), compressed channel reader (Channel),
\* and in the mixed mode a file-region reader for a FileSegment and a
\* compressed channel reader for any other segment; one reader is built per
\* segment asked of the provider.
C10_ReaderFollowsMode ==
    /\ Len(built) = seg_next
    /\ \A i \in 1..Len(built) :
           /\ built[i].seg = i
           /\ mode = "ChannelUncompressed" =>
                  built[i].reader = "channel" /\ ~built[i].compressed
           /\ mode = "Channel" => built[i].reader = "channel" /\ built[i].compressed
           /\ mode = "ChannelAndFileSegment" =>
                  IF segments[i].kind = "file" THEN built[i].reader = "file"
                  ELSE built[i].reader = "channel" /\ built[i].compressed

\* C10's case: in the mixed mode a reader has been built for a channel and
\* for a FileSegment.
C10_Witness ==
    /\ mode = "ChannelAndFileSegment"
    /\ Len(built) >= 2
    /\ {segments[built[i].seg].kind : i \in 1..Len(built)} = {"channel", "file"}

-----------------------------------------------------------------------------
(* Claims about the casts *)

\* The cast of cast_type has been evaluated.
Evaluated(kind) == cast_type.kind = kind /\ cast_output.kind # "none"

\* The position after an optional leading sign
AfterSign(s) == IF Len(s) > 0 /\ s[1] \in {"-", "+"} THEN 2 ELSE 1

\* An optional sign followed by one or more digits
IsSignedDigits(s) ==
    /\ Len(s) >= AfterSign(s)
    /\ \A i \in AfterSign(s)..Len(s) : IsDigit(s[i])

\* A digit string without its leading zeros
RECURSIVE StripZeros(_)
StripZeros(ds) == IF Len(ds) > 0 /\ ds[1] = "0" THEN StripZeros(Tail(ds)) ELSE ds

\* a <= b as numbers, for digit strings of one length
RECURSIVE DigitsLeq(_, _)
DigitsLeq(a, b) ==
    \/ a = <<>>
    \/ DigitOf(a[1]) < DigitOf(b[1])
    \/ a[1] = b[1] /\ DigitsLeq(Tail(a), Tail(b))

\* The number that the digit string ds denotes is at most the one that D
\* denotes (D without leading zeros).
MagnitudeLeq(ds, D) ==
    LET t == StripZeros(ds)
    IN  Len(t) < Len(D) \/ (Len(t) = Len(D) /\ DigitsLeq(t, D))

\* The negation of the number that a digit string denotes
RECURSIVE NegOf(_)
NegOf(ds) ==
    IF ds = <<>> THEN 0
    ELSE NegOf(SubSeq(ds, 1, Len(ds) - 1)) * 10 - DigitOf(ds[Len(ds)])

\* The element that a signed digit string denotes in width w: its value if
\* that is within [min_value, max_value], null if not.
DenotedInteger(s, w) ==
    LET ds == SubSeq(s, AfterSign(s), Len(s))
        D == DigitsOfNeg(min_value(w))
        negative == s[1] = "-"
    IN  IF ~MagnitudeLeq(ds, D) THEN NullValue
        ELSE IF negative THEN Value(NegOf(ds))
        ELSE IF StripZeros(ds) = D THEN NullValue
        ELSE Value(-NegOf(ds))

\* C7: an array of strings of the form optional sign, one or more digits,
\* cast to a signed integer of width w, yields for each string the integer
\* it denotes if that lies in [-2^(w-1), 2^(w-1)-1] and null otherwise: the
\* exact minimum parses to the minimum, maximum+1 yields null, "-0" yields 0.
C7_SignedDigitsYieldValueOrNull ==
    (/\ Evaluated("Int")
     /\ \A i \in 1..Len(cast_input) :
            ~cast_input[i].null /\ IsSignedDigits(cast_input[i].s))
    => /\ cast_output.kind = "ok"
       /\ Len(cast_output.array) = Len(cast_input)
       /\ \A i \in 1..Len(cast_input) :
              cast_output.array[i] = DenotedInteger(cast_input[i].s, cast_type.width)

\* The first decimal point of s at or after position i, or Len(s) + 1
PointFrom(s, i) ==
    IF \E j \in i..Len(s) : s[j] = "."
    THEN CHOOSE j \in i..Len(s) : s[j] = "." /\ \A k \in i..(j - 1) : s[k] # "."
    ELSE Len(s) + 1

\* The malformed inputs: the empty string, a lone sign, a byte other than
\* a digit before the first decimal point (after an optional leading sign),
\* a byte other than a digit after the first decimal point.
Malformed(s) ==
    \/ s = <<>>
    \/ s \in {<<"-">>, <<"+">>}
    \/ \E i \in AfterSign(s)..Len(s) : i # PointFrom(s, AfterSign(s)) /\ ~IsDigit(s[i])

\* C8: an array of malformed strings cast to an integer yields null for
\* each of them; the cast does not fail or abort.
C8_MalformedYieldsNull ==
    (/\ Evaluated("Int")
     /\ \A i \in 1..Len(cast_input) :
            ~cast_input[i].null /\ Malformed(cast_input[i].s))
    => /\ cast_output.kind = "ok"
       /\ Len(cast_output.array) = Len(cast_input)
       /\ \A i \in 1..Len(cast_input) : cast_output.array[i] = NullValue

\* An unscaled value as an element of Decimal128(precision, _): null if its
\* magnitude exceeds 10^precision - 1.
Fit(v, precision) ==
    IF v = 0 \/ count_digits(v) <= precision THEN Value(v) ELSE NullValue

\* The elements that the cast of a string to Decimal128(precision, scale)
\* may yield: null for a string that does not parse; else the unscaled value
\* at the scale, truncated or rounded half up, if it is representable in
\* the precision, and null if it is not.
DecimalElements(s, precision, scale) ==
    LET d == from_str(s)
        digits == count_digits(d.int_val)
        k == d.scale - scale
    IN  IF ~d.ok THEN {NullValue}
        ELSE IF d.int_val = 0 THEN {Value(0)}
        ELSE IF k <= 0
        THEN IF digits - k <= precision
             THEN {Value(d.int_val * ten_to_the(-k))}
             ELSE {NullValue}
        ELSE IF k > digits THEN {Value(0)}
        ELSE LET qr == div_rem(d.int_val, ten_to_the(k))
                 up == 2 * Abs(qr.r) >= ten_to_the(k)
                 rounded == IF ~up THEN qr.q
                            ELSE IF d.int_val < 0 THEN qr.q - 1 ELSE qr.q + 1
             IN  {Fit(qr.q, precision), Fit(rounded, precision)}

\* C9: the cast of an array of strings to Decimal128(precision, scale)
\* succeeds, and yields for each string the unscaled value it denotes,
\* rounded or truncated to the scale, if that is representable, and null
\* if it is not or if the string does not parse; it never yields an error.
C9_DecimalValueOrNull ==
    Evaluated("Decimal")
    => /\ cast_output.kind = "ok"
       /\ Len(cast_output.array) = Len(cast_input)
       /\ \A i \in 1..Len(cast_input) :
              IF cast_input[i].null THEN cast_output.array[i] = NullValue
              ELSE cast_output.array[i] \in
                       DecimalElements(cast_input[i].s, cast_type.precision, cast_type.scale)

\* How many of the first n events are event e of segment i
Count(e, i, n) ==
    Cardinality({j \in 1..n : events[j].e = e /\ events[j].seg = i})

\* The segments whose handle is open after the first n events: taken and
\* not yet released
OpenAfter(n) ==
    {i \in 1..Len(segments) : Count("open", i, n) > Count("close", i, n)}

\* The stream has returned end-of-stream
ReturnedEnd == \E k \in 1..Len(results) : results[k].out.kind = "eos"

\* C11: once the stream has returned end-of-stream or has been dropped, every
\* channel and file handle it took is closed, whatever polls came before
\* (polls that returned errors included, and a drop before exhaustion).
C11_HandlesClosedAtEndOrDrop ==
    (ReturnedEnd \/ dropped) => OpenAfter(Len(events)) = {}

\* C11's case: a stream dropped with a reader on a partially consumed
\* segment, after a poll that returned an error.
C11_Witness ==
    /\ dropped
    /\ ~ReturnedEnd
    /\ \E k \in 1..Len(results) : results[k].out.kind = "err"
    /\ Len(events) > 0
    /\ events[Len(events)].e = "close"
    /\ OpenAfter(Len(events) - 1) # {}

\* The results of a stream polled alone n times from its start: one
\* sequence for each outcome of the undefined calls.
RECURSIVE AloneRuns(_)
AloneRuns(n) ==
    IF n = 0
    THEN {[st |-> [reader |-> NoReader, seg_next |-> 0, built |-> <<>>, events |-> <<>>],
           outs |-> <<>>]}
    ELSE {LET p == poll_next(r.st, ub, 1)
          IN  [st |-> p.st, outs |-> Append(r.outs, p.out)] :
              r \in {q \in AloneRuns(n - 1) :
                        \A k \in 1..Len(q.outs) : q.outs[k].kind # "abort"},
              ub \in UndefinedCall}

\* What the polls of a stream have returned, in order
OutsOf(res) == [k \in 1..Len(res) |-> res[k].out]

\* C12: under every interleaving of the polls of the streams of two
\* partitions, each stream returns what it returns when it is polled alone:
\* the streams share no cursor and no reader.
C12_StreamsAreIndependent ==
    /\ OutsOf(results) \in {r.outs : r \in AloneRuns(Len(results))}
    /\ OutsOf(other.results) \in {r.outs : r \in AloneRuns(Len(other.results))}

\* C13: every batch that the stream returns has the schema that the stream
\* reports (the node's), whatever segments the provider yields, segments
\* whose encoded stream declares a schema of its own included.
C13_BatchesHaveNodeSchema ==
    \A k \in 1..Len(results) :
        results[k].out.kind = "batch" => BatchSchema(results[k].out) = schema

\* C14: the decimal cast function run with a cast type that is no decimal
\* aborts (it returns neither an array nor an error), and evaluate runs it
\* only for a decimal cast type, so evaluate never reaches that abort,
\* whatever the value's type and the cast type.
C14_DecimalPathOnlyForDecimal ==
    /\ (cast_call.path = "decimal" /\ cast_type.kind # "Decimal")
           => cast_output.kind = "abort"
    /\ (cast_call.entry = "evaluate" /\ cast_call.path = "decimal")
           => (value_type = "Utf8" /\ cast_type.kind = "Decimal" /\ cast_output.kind # "abort")

\* C14's case: the decimal cast function has been called with an integer
\* cast type, and has aborted.
C14_Witness ==
    /\ cast_call = [entry |-> "direct", path |-> "decimal"]
    /\ cast_type.kind = "Int"
    /\ cast_output.kind = "abort"

(* Further claims about the limit stream *)

\* C15: a poll made when limit minus the emitted rows is 0 (every poll of a
\* stream with limit 0 among them) returns end-of-stream and does not poll
\* the child.
C15_EndsWithoutChildPollAtZero ==
    [][saturating_sub(limit, Len(emitted)) = 0
           => (lastPoll'.kind = "eos" /\ input_stream' = input_stream)]_vars

\* The child has been polled in this step.
ChildPolled == input_stream'.polled = input_stream.polled + 1

\* What the child answered in this step, when it answered pending,
\* end-of-stream or an error ("batch" otherwise).
ChildAnswer ==
    IF input_stream'.pending > input_stream.pending THEN "pending"
    ELSE IF input_stream'.next = input_stream.next THEN "eos"
    ELSE input_stream.items[input_stream'.next].kind

\* C16: when the child's poll returns pending, end-of-stream or an error, the
\* poll of the limit stream returns that same outcome, and the emitted rows,
\* the row counters and the limit stay as they were.
C16_ChildOutcomePropagated ==
    [][(ChildPolled /\ ChildAnswer # "batch")
           => /\ lastPoll'.kind = ChildAnswer
              /\ lastPoll'.rows = <<>>
              /\ <<cur, limit, emitted, output_rows>>' = <<cur, limit, emitted, output_rows>>]_vars

\* C16's case: the limit stream has returned the pending, the end-of-stream
\* and the error of a child it polled.
C16_Witness ==
    /\ input_stream.polled > 0
    /\ input_stream.pending > 0
    /\ input_stream.next > 0
    /\ input_stream.items[input_stream.next].kind = "err"
    /\ lastPoll.kind = "eos"

(* Further claims about the ingestion stream *)

\* The events `e` of segment i, in order.
EventsOf(e, i) == SelectSeq(events, LAMBDA x : x.e = e /\ x.seg = i)

\* The batches the stream has yielded from segment i, in order.
YieldedOf(i) == SelectSeq(BatchesOf(results, Len(results)), LAMBDA o : o.seg = i)

\* Segment i is a well-formed region of a file, read by a file-region reader.
WellFormedRegion(i) == segments[i].kind = "file" /\ Decodes(segments[i])

\* C17: for a well-formed file region of frames F1..Fm with lengths L1..Lm,
\* the reader reads the length of Fi at offset + sum over j < i of (8 + Lj),
\* yields the batches of F1, then F2, ..., then Fm, and reports exhaustion
\* exactly when its position has reached or passed offset + length; a region
\* of length 0 yields no batch.
C17_FramesReadAtTheirPositions ==
    \A i \in 1..Len(segments) :
        WellFormedRegion(i) =>
            LET seg == segments[i]
                m == Cardinality(FramesInRegion(seg))
                reads == EventsOf("read_length", i)
                rets == EventsOf("return", i)
                ended == \E k \in 1..Len(rets) : rets[k].out = "none"
            IN  /\ Len(reads) <= m
                /\ \A k \in 1..Len(reads) :
                       reads[k].pos = FramePos(seg, k) /\ reads[k].out = "ok"
                /\ IsPrefix(YieldedOf(i), BatchesOfFrames(i, m))
                /\ \A k \in 1..Len(rets) :
                       (rets[k].out = "none") <=> (rets[k].pos >= seg.offset + seg.length)
                /\ ended => (Len(reads) = m /\ YieldedOf(i) = BatchesOfFrames(i, m))
                /\ seg.length = 0 => YieldedOf(i) = <<>>

\* C17's case: the reader of a well-formed region of two frames or more has
\* yielded a batch of the second frame and has reported exhaustion.
C17_Witness ==
    \E i \in 1..Len(segments) :
        /\ WellFormedRegion(i)
        /\ Cardinality(FramesInRegion(segments[i])) >= 2
        /\ \E k \in 1..Len(YieldedOf(i)) : YieldedOf(i)[k].frame = 2
        /\ \E k \in 1..Len(events) :
               /\ events[k].e = "return" /\ events[k].seg = i /\ events[k].out = "none"
               /\ events[k].pos = segments[i].offset + segments[i].length

\* The provider has answered that it has no further segment.
ProviderExhausted ==
    \E j \in 1..Len(events) : events[j].e = "hasNext" /\ events[j].out = "false"

\* C18: the stream has at most one open segment handle at any time: when the
\* handle of a segment is opened, the handle of the segment before it has
\* been released, and no reader is live once the provider is exhausted.
C18_AtMostOneLiveReader ==
    /\ \A j \in 1..Len(events) :
           /\ Cardinality(OpenAfter(j)) <= 1
           /\ events[j].e = "open" => OpenAfter(j - 1) = {}
    /\ ProviderExhausted => (reader = NoReader /\ OpenAfter(Len(events)) = {})

\* Event j is the last event of the consumer's poll it belongs to: the next
\* event, if any, starts a poll of the consumer or is of the stream's drop.
EndsPoll(j) == j < Len(events) => events[j + 1].depth <= 1

\* C19: a poll takes at most one batch from a reader and returns it at once
\* (no segment is opened and nothing more is decoded in that poll), and the
\* provider is asked for the next segment only by a poll that found no
\* current reader or whose reader has just reported exhaustion.
C19_OneBatchPerPollNoReadAhead ==
    \A j \in 1..Len(events) :
        /\ (events[j].e = "return" /\ events[j].out = "batch") => EndsPoll(j)
        /\ events[j].e = "hasNext" =>
               /\ j >= 3
               /\ events[j - 1].e = "next_segment"
               /\ \/ events[j - 2].e = "poll_next" /\ events[j - 2].out = "none"
                  \/ events[j - 2].e = "return" /\ events[j - 2].out = "none"

\* C19's case: a poll has returned a batch; the next poll found its reader
\* exhausted, asked the provider, opened the next segment and returned that
\* segment's first batch.
C19_Witness ==
    LET k == Len(events)
    IN  /\ k > 0
        /\ events[k].e = "return" /\ events[k].out = "batch"
        /\ \E j \in 3..k :
               /\ events[j].e = "hasNext" /\ events[j].out = "true"
               /\ events[j].seg = events[k].seg
               /\ events[j - 2].e = "return" /\ events[j - 2].out = "none"
               /\ \E i \in 1..(j - 2) :
                      /\ events[i].e = "return" /\ events[i].out = "batch"
                      /\ events[i + 1].e = "poll_next" /\ events[i + 1].depth = 1
                      /\ \A n \in (i + 2)..(k - 1) : events[n].depth > 1

\* The next_batch invocation that event j is nested in: the last one entered
\* before it.
EnclosingNextBatch(j) ==
    CHOOSE i \in 1..j : /\ events[i].e = "next_batch"
                        /\ \A n \in (i + 1)..j : events[n].e # "next_batch"

\* C20: within one poll, the nesting of invocations does not grow with the
\* segments and frames that are skipped: poll_next is never nested deeper
\* than in a poll that advances to one segment (the consumer's call, and one
\* level), and next_batch_impl never deeper than in a call that opens one
\* frame (next_batch's call, and one level).
C20_NestingIndependentOfSkips ==
    \A j \in 1..Len(events) :
        /\ events[j].e = "poll_next" => events[j].depth <= 2
        /\ events[j].e = "next_batch_impl" =>
               events[j].depth <= events[EnclosingNextBatch(j)].depth + 2

\* The consumer's poll that event j belongs to: the polls started up to it.
PollOf(j) ==
    Cardinality({n \in 1..j : events[n].e = "poll_next" /\ events[n].depth = 1})

\* Segment i cannot be opened by the reader that the mode gives it: a file
\* that cannot be opened, or a channel whose bytes are not compressed as the
\* reader expects or do not start with a readable stream header.
OpenFails(i) ==
    LET seg == segments[i]
        choice == ReaderChoice(mode, seg)
    IN  IF seg.kind = "file" THEN choice.reader = "file" /\ ~seg.openable
        ELSE seg.zstd # choice.compressed \/ ~seg.stream.header

\* Event j is a failure to open, read or decode a channel or a frame of a
\* file region: the provider's next segment cannot be opened, the length
\* of a frame cannot be read, the frame read does not hold a readable
\* stream header, or the decoder has returned an error.
IsFailure(j) ==
    LET ev == events[j]
    IN  \/ ev.e = "hasNext" /\ ev.out = "true" /\ OpenFails(ev.seg)
        \/ ev.e = "read_length" /\ ev.out = "err"
        \/ /\ ev.e = "read_length" /\ ev.out = "ok"
           /\ ~segments[ev.seg].frames[ReadLength(segments[ev.seg], ev.pos).frame].stream.header
        \/ ev.e = "return" /\ ev.out = "err"

\* C21: every failure to open, read or decode a channel or a frame of a file
\* region is returned by the poll that met it as an error item: that poll
\* does not abort, does not return a batch and does not skip the segment.
C21_FailuresAreErrorItems ==
    \A j \in 1..Len(events) :
        IsFailure(j) => results[PollOf(j)].out.kind = "err"

(* Further claims about the cast to an integer *)

\* An optional sign, a digit string D, a decimal point and a digit string F
\* (D and F may be empty)
HasPointForm(s) ==
    LET p == PointFrom(s, AfterSign(s))
    IN  /\ p <= Len(s)
        /\ \A i \in AfterSign(s)..Len(s) : i # p => IsDigit(s[i])

\* The sign and the digits D of a string of that form
WholePart(s) == SubSeq(s, 1, PointFrom(s, AfterSign(s)) - 1)

\* The element that the whole part (sign and D) denotes in width w: 0 for
\* no digit, else the value of sign D if it is in range (null if it is not).
TruncatedInteger(whole, w) ==
    IF Len(whole) < AfterSign(whole) THEN Value(0) ELSE DenotedInteger(whole, w)

\* C22: the fractional part does not change the integer result: the cast
\* of sign D '.' F is what the cast of sign D is, and it is the value of
\* sign D when that is in range, with an empty D counting as 0 ("3.9" gives
\* 3, "-3.9" gives -3, ".", "-." and ".5" give 0).
C22_FractionIsTruncated ==
    Evaluated("Int") =>
        \A i \in 1..Len(cast_input) :
            (~cast_input[i].null /\ HasPointForm(cast_input[i].s)) =>
                LET s == cast_input[i].s
                    w == cast_type.width
                    whole == WholePart(s)
                    want == TruncatedInteger(whole, w)
                    got == to_integer(s, w, overflow_checks)
                IN  /\ Len(whole) >= AfterSign(whole) =>
                           got = to_integer(whole, w, overflow_checks)
                    /\ want # NullValue =>
                           /\ got = Some(want.v)
                           /\ cast_output.kind = "ok" => cast_output.array[i] = want

\* C22's case: a negative number with a fraction other than zero has been
\* cast to the negative integer before its decimal point.
C22_Witness ==
    /\ Evaluated("Int")
    /\ cast_output.kind = "ok"
    /\ \E i \in 1..Len(cast_input) :
           /\ ~cast_input[i].null /\ HasPointForm(cast_input[i].s)
           /\ cast_input[i].s[1] = "-"
           /\ IsSignedDigits(WholePart(cast_input[i].s))
           /\ cast_input[i].s[Len(cast_input[i].s)] = "9"
           /\ cast_input[i].s[Len(cast_input[i].s) - 1] = "."
           /\ cast_output.array[i] = Value(min_value(cast_type.width))

\* C23: each multiplication, subtraction and negation that to_integer does
\* on its accumulator has its exact result within [-2^(w-1), 2^(w-1)-1]: in
\* a build that checks overflows no string makes a step panic, so the cast
\* never aborts, whatever the string and the width.
C23_NoStepOverflows ==
    Evaluated("Int") =>
        /\ cast_output.kind # "abort"
        /\ \A i \in 1..Len(cast_input) :
               ~cast_input[i].null =>
                   to_integer(cast_input[i].s, cast_type.width, TRUE) # Panic

=============================================================================
